---- MODULE Spec2Model ----
(***************************************************************************)
(* Model of the spectral similarity / network-construction core of FIAMN.  *)
(*                                                                         *)
(*   SpecCosine  : cosine_similarity of script_06_skeleton_sim.py applied  *)
(*                 to two peak maps (dicts, kept in insertion order).      *)
(*   SpecExpand  : run_final_restoration_v2 of                             *)
(*                 script_03_cosine_similarity_calc.py (seed scan + BFS).  *)
(*   SpecPipeline: run_similarity_network_pipeline of                      *)
(*                 script_06_skeleton_sim.py (nodes, pairwise edges,       *)
(*                 XGMML output).                                          *)
(*   SpecMerge   : merge_peaks_internal of                                 *)
(*                 script_03_cosine_similarity_calc.py.                    *)
(*   SpecTIC     : filter_mgf_by_total_intensity of                        *)
(*                 script_02_TIC_filtering.py, line by line.               *)
(*   SpecMain    : run_fiamn_pipeline of main.py, one action per step, on  *)
(*                 the files of the working directory.                     *)
(*                                                                         *)
(* Numbers.  m/z of fragment peaks is counted in units of 0.005 Da, so the *)
(* 0.01 Da tolerance is 2 units.  Intensities are naturals.  A score is    *)
(* kept as the exact pair (num, densq) with score = num / sqrt(densq), so  *)
(* that comparisons are done by cross-multiplication; binary64 rounding of *)
(* sqrt, * and / and of the tolerance comparison is not modelled.          *)
(* Precursor m/z of the seed search is counted in units of 0.0025 Da,      *)
(* retention time in seconds, CosineGreedy scores in tenths.               *)
(* In the pipeline PEPMASS is counted in units of 0.001 Da and             *)
(* RTINSECONDS in units of 0.1 s; a spectrum id "%.2f-%d" is the pair      *)
(* (hundredths of a Da, seconds).  Spectral entropy is counted in units of *)
(* 1e-7 from a table of natural logarithms; the 1e-12 added inside the     *)
(* logarithm is below that unit.  Values recorded with four decimals are   *)
(* integers in units of 0.0001.                                            *)
(***************************************************************************)
EXTENDS Integers, Sequences, FiniteSets, TLC

\* ---------------------------------------------------------------- bounds
\* most peaks in one peak map
MaxPeaks == 2
\* most spectra in the collection handed to run_final_restoration_v2
MaxSpectra == 4

\* ------------------------------------------------------ program constants
\* MZ_TOLERANCE_DA = 0.01 Da, in units of 0.005 Da
MZ_TOLERANCE_DA == 2
\* SIM_THRESHOLD = 0.9 as the fraction SIM_THRESHOLD_NUM / SIM_THRESHOLD_DEN
SIM_THRESHOLD_NUM == 9
SIM_THRESHOLD_DEN == 10
\* Seed window of run_final_restoration_v2: abs(curr_mz - target_mz) < 0.005,
\* precursor m/z counted in units of 0.0025 Da; abs(curr_rt - target_rt) < 2.0,
\* retention time counted in seconds.
SEED_MZ_TOLERANCE == 2
SEED_RT_TOLERANCE == 2
\* threshold=0.7, scores of CosineGreedy counted in tenths
THRESHOLD == 7
\* min_total_intensity=2000, intensities of the TIC filter counted in units of 1000
MIN_TOTAL_INTENSITY == 2
\* merge_peaks_internal(spectrum, tolerance=0.02), m/z counted in units of 0.01 Da
MERGE_TOLERANCE == 2
\* ENTROPY_RATIO_LIMIT = 0.75, in units of 0.0001
ENTROPY_RATIO_LIMIT == 7500
\* round(x, 4): the number of units of 0.0001 in 1
FOUR_DECIMALS == 10000

VARIABLES
    \* --- cosine_similarity (script_06)
    peaks1, peaks2,      \* the two dicts: sequences of <<mz, intensity>> in insertion order
    dot_product, matched,\* the accumulators of the matching loop when it has finished
    cos_sim,             \* the returned score
    cos_pc,              \* "call" before the call, "done" after the return, "idle" elsewhere
    \* --- run_final_restoration_v2 (script_03)
    raw_spectrums,       \* sequence of [precursor_mz, retention_time]
    target_mz, target_rt,\* parameters
    scan_i,              \* position of the seed scan (enumerate index + 1)
    seed_idx,            \* None or the index of the seed
    selected_indices, to_explore, curr, cand_i,
    pair_score,          \* the scores cosine_sim.pair has returned so far, by <<curr, i>>
    output_file,         \* NoFile or the set of indices written
    outcome,             \* "running", then how the call ended: "returned" or "raised"
    pops,                \* number of to_explore.pop(0) performed
    popped,              \* the indices to_explore.pop(0) has returned, in order
    pc,                  \* position in run_final_restoration_v2, "idle" elsewhere
    \* --- run_similarity_network_pipeline (script_06)
    entries,             \* what parse_mgf returned: sequence of [PEPMASS, RTINSECONDS, peaks]
    processed_data,      \* sequence of [id, peaks, entropy, pepmass, retention_time]
    pair_i, pair_j,      \* the pair (i, j) combinations(...) yields next (positions from 1)
    edges,               \* sequence of [source, target, similarity, entropy_ratio]
    scored,              \* the pairs <<i, j>> handed to cosine_similarity so far, in order
    edge_trace,          \* for each edge: the positions i, j it joins and the unrounded ratio
    xgmml,               \* the output file: [written, nodes, edges]
    pipe_pc,             \* position in run_similarity_network_pipeline, "idle" elsewhere
    \* --- merge_peaks_internal (script_03)
    spectrum,            \* the argument: [none, peaks, metadata]
    idx_sorted,          \* the positions by descending intensity
    merge_k,             \* position of the for loop in idx_sorted
    keep_idx, seen_mz,
    merged,              \* the returned spectrum
    merge_pc,            \* position in merge_peaks_internal, "idle" elsewhere
    \* --- filter_mgf_by_total_intensity (script_02)
    infile,              \* the lines of input_file
    line_no,             \* the line the for loop reads next
    current_spectrum, in_spectrum, total_intensity,
    outfile,             \* the lines written to output_file
    tic_pc,              \* position in filter_mgf_by_total_intensity, "idle" elsewhere
    \* --- run_fiamn_pipeline (main.py)
    fs,                  \* the working directory: file name -> "absent", "empty", "spectra"
    written,             \* the files this run has written
    seed_found,          \* what step 3 reported: "pending", "found", "none"
    success_printed,     \* the completion message has been printed
    main_pc              \* the step run_fiamn_pipeline is at, "idle" elsewhere

cosVars == <<peaks1, peaks2, dot_product, matched, cos_sim, cos_pc>>
expVars == <<raw_spectrums, target_mz, target_rt, scan_i, seed_idx, selected_indices,
             to_explore, curr, cand_i, pair_score, output_file, outcome, pops, popped,
             pc>>
pipeVars == <<entries, processed_data, pair_i, pair_j, edges, scored, edge_trace, xgmml,
              pipe_pc>>
mergeVars == <<spectrum, idx_sorted, merge_k, keep_idx, seen_mz, merged, merge_pc>>
ticVars == <<infile, line_no, current_spectrum, in_spectrum, total_intensity, outfile,
             tic_pc>>
mainVars == <<fs, written, seed_found, success_printed, main_pc>>
\* what the functions of SpecCosine and SpecExpand leave alone
otherVars == <<pipeVars, mergeVars, ticVars, mainVars>>
\* what run_similarity_network_pipeline leaves alone
outsidePipeline == <<cosVars, expVars, mergeVars, ticVars, mainVars>>
\* what merge_peaks_internal leaves alone
outsideMerge == <<cosVars, expVars, pipeVars, ticVars, mainVars>>
\* what filter_mgf_by_total_intensity leaves alone
outsideTIC == <<cosVars, expVars, pipeVars, mergeVars, mainVars>>
\* what the steps of run_fiamn_pipeline leave alone
outsideMain == <<cosVars, expVars, pipeVars, mergeVars, ticVars>>
vars == <<cosVars, expVars, otherVars>>

\* ------------------------------------------------------------- helpers
Abs(x) == IF x < 0 THEN 0 - x ELSE x

None == 0 - 1

\* output_path does not exist
NoFile == {None}

Mz(p) == p[1]
Intensity(p) == p[2]

\* list(peaks.keys())
Keys(peaks) == [k \in 1..Len(peaks) |-> Mz(peaks[k])]

\* sum(i ** 2 for i in peaks.values())
RECURSIVE SumNoSquare(_)
SumNoSquare(peaks) ==
    IF peaks = <<>> THEN 0
    ELSE Intensity(Head(peaks)) + SumNoSquare(Tail(peaks))

RECURSIVE SumSq(_)
SumSq(peaks) ==
    IF peaks = <<>> THEN 0
    ELSE Intensity(Head(peaks)) * Intensity(Head(peaks)) + SumSq(Tail(peaks))

\* The inner loop of cosine_similarity: the first idx2 (in key order) that is
\* not yet matched and lies within the tolerance of mz1; 0 when the loop ends
\* without a break.
FirstUnmatchedNoMark(mz1, keys2, done) ==
    LET cand == {idx2 \in 1..Len(keys2) : Abs(mz1 - keys2[idx2]) <= MZ_TOLERANCE_DA}
    IN  IF cand = {} THEN 0 ELSE CHOOSE c \in cand : \A d \in cand : c <= d

FirstUnmatchedLast(mz1, keys2, done) ==
    LET cand == {idx2 \in 1..Len(keys2) :
                    idx2 \notin done /\ Abs(mz1 - keys2[idx2]) <= MZ_TOLERANCE_DA}
    IN  IF cand = {} THEN 0 ELSE CHOOSE c \in cand : \A d \in cand : c >= d

FirstUnmatchedStrict(mz1, keys2, done) ==
    LET cand == {idx2 \in 1..Len(keys2) :
                    idx2 \notin done /\ Abs(mz1 - keys2[idx2]) < MZ_TOLERANCE_DA}
    IN  IF cand = {} THEN 0 ELSE CHOOSE c \in cand : \A d \in cand : c <= d

FirstUnmatched(mz1, keys2, done) ==
    LET cand == {idx2 \in 1..Len(keys2) :
                    idx2 \notin done /\ Abs(mz1 - keys2[idx2]) <= MZ_TOLERANCE_DA}
    IN  IF cand = {} THEN 0 ELSE CHOOSE c \in cand : \A d \in cand : c <= d

\* The outer loop of cosine_similarity from its k-th item on; acc holds
\* dot_product and matched.
RECURSIVE MatchLoop(_, _, _, _)
MatchLoop(p1, p2, k, acc) ==
    IF k > Len(p1) THEN acc
    ELSE LET idx2 == FirstUnmatched(Mz(p1[k]), Keys(p2), acc.matched)
         IN  MatchLoop(p1, p2, k + 1,
                 IF idx2 = 0 THEN acc
                 ELSE [dot_product |-> acc.dot_product + Intensity(p1[k]) * Intensity(p2[idx2]),
                       matched |-> acc.matched \cup {idx2}])

\* return dot_product / (n1 * n2) if n1 and n2 else 0.0
\* n1 = sqrt(SumSq(p1)) is falsy exactly when SumSq(p1) = 0.
ScoreAlwaysDivide(dot, sq1, sq2) ==
    [num |-> dot, densq |-> sq1 * sq2, divided |-> TRUE]

Score(dot, sq1, sq2) ==
    IF sq1 # 0 /\ sq2 # 0
    THEN [num |-> dot, densq |-> sq1 * sq2, divided |-> TRUE]
    ELSE [num |-> 0, densq |-> 1, divided |-> FALSE]

cosine_similarity(p1, p2) ==
    Score(MatchLoop(p1, p2, 1, [dot_product |-> 0, matched |-> {}]).dot_product,
          SumSq(p1), SumSq(p2))

\* Equality and order of two scores num / sqrt(densq) (num >= 0, densq > 0)
ScoreEq(s, t) == s.num * s.num * t.densq = t.num * t.num * s.densq

\* if cos_sim > SIM_THRESHOLD
PassesSimThresholdStrict(s) ==
    SIM_THRESHOLD_DEN * SIM_THRESHOLD_DEN * s.num * s.num
        > SIM_THRESHOLD_NUM * SIM_THRESHOLD_NUM * s.densq

\* if cos_sim >= SIM_THRESHOLD  (run_similarity_network_pipeline)
PassesSimThreshold(s) ==
    SIM_THRESHOLD_DEN * SIM_THRESHOLD_DEN * s.num * s.num
        >= SIM_THRESHOLD_NUM * SIM_THRESHOLD_NUM * s.densq

\* ------------------------------------------------------------ inputs
Intensities == 0..2
\* Three m/z positions, neighbours exactly one tolerance apart, so that the
\* outer two are out of tolerance of each other (overlapping windows).
MzGrid == {0, 2, 4}
PeakSet == MzGrid \X Intensities

\* Peak maps of at most MaxPeaks peaks with distinct m/z, in every insertion order
PeakMaps ==
    UNION {{s \in [1..n -> PeakSet] : \A a, b \in 1..n : a # b => Mz(s[a]) # Mz(s[b])}
           : n \in 0..MaxPeaks}

\* The spec's concrete scenario: A = {(100.0,10),(200.0,20)}, B = {(100.005,10),(300.0,5)}
ScenarioA == <<<<20000, 10>>, <<40000, 20>>>>
ScenarioB == <<<<20001, 10>>, <<60000, 5>>>>

CosineInputs == (PeakMaps \X PeakMaps) \cup {<<ScenarioA, ScenarioB>>, <<ScenarioB, ScenarioA>>}

NoScore == [num |-> 0, densq |-> 1, divided |-> FALSE]

ExpandIdle ==
    /\ raw_spectrums = <<>> /\ target_mz = 0 /\ target_rt = 0 /\ scan_i = 0
    /\ seed_idx = None /\ selected_indices = {} /\ to_explore = <<>> /\ curr = None
    /\ cand_i = 0 /\ pair_score = <<>> /\ output_file = NoFile /\ outcome = "idle"
    /\ pops = 0 /\ popped = <<>> /\ pc = "idle"

\* output_xgmml has not been written
NoXgmml == [written |-> FALSE, nodes |-> <<>>, edges |-> <<>>]

PipelineIdle ==
    /\ entries = <<>> /\ processed_data = <<>> /\ pair_i = 0 /\ pair_j = 0
    /\ edges = <<>> /\ scored = <<>> /\ edge_trace = <<>> /\ xgmml = NoXgmml
    /\ pipe_pc = "idle"

MergeIdle ==
    /\ spectrum = [none |-> TRUE, peaks |-> <<>>, metadata |-> <<>>]
    /\ idx_sorted = <<>> /\ merge_k = 0 /\ keep_idx = <<>> /\ seen_mz = <<>>
    /\ merged = [none |-> TRUE, peaks |-> <<>>, metadata |-> <<>>]
    /\ merge_pc = "idle"

TicIdle ==
    /\ infile = <<>> /\ line_no = 0 /\ current_spectrum = <<>> /\ in_spectrum = FALSE
    /\ total_intensity = 0 /\ outfile = <<>> /\ tic_pc = "idle"

MainIdle ==
    /\ fs = <<>> /\ written = {} /\ seed_found = "idle" /\ success_printed = FALSE
    /\ main_pc = "idle"

OtherIdle == PipelineIdle /\ MergeIdle /\ TicIdle /\ MainIdle

\* ----------------------------------------------------- SpecCosine
InitCosine ==
    /\ \E inp \in CosineInputs : peaks1 = inp[1] /\ peaks2 = inp[2]
    /\ dot_product = 0 /\ matched = {} /\ cos_sim = NoScore /\ cos_pc = "call"
    /\ ExpandIdle /\ OtherIdle

\* cos_sim = cosine_similarity(d1['peaks'], d2['peaks'])
CallCosine ==
    /\ cos_pc = "call"
    /\ LET r == MatchLoop(peaks1, peaks2, 1, [dot_product |-> 0, matched |-> {}])
       IN  /\ dot_product' = r.dot_product
           /\ matched' = r.matched
    /\ cos_sim' = cosine_similarity(peaks1, peaks2)
    /\ cos_pc' = "done"
    /\ UNCHANGED <<peaks1, peaks2, expVars, otherVars>>

NextCosine == CallCosine

SpecCosine == InitCosine /\ [][NextCosine]_vars

CosineIdle ==
    /\ peaks1 = <<>> /\ peaks2 = <<>> /\ dot_product = 0 /\ matched = {}
    /\ cos_sim = NoScore /\ cos_pc = "idle"

\* ----------------------------------------------------- SpecExpand
\* Metadata of the loaded spectra (precursor_mz, retention_time), for the
\* targets (1, 1): inside the window, precursor m/z exactly one tolerance
\* off, retention time 0 inside the window.
MetaKinds ==
    { [precursor_mz |-> 2, retention_time |-> 2],
      [precursor_mz |-> 3, retention_time |-> 1],
      [precursor_mz |-> 1, retention_time |-> 0] }

Collections == UNION {[1..n -> MetaKinds] : n \in 0..MaxSpectra}

\* The values cosine_sim.pair(...)['score'] may return (tenths)
ScoreVals == {THRESHOLD - 1, THRESHOLD}

\* Python truthiness of an optional float
Truthy(x) == x # None /\ x # 0

\* if curr_mz and curr_rt: if abs(curr_mz - target_mz) < 0.005 and abs(curr_rt - target_rt) < 2.0
SeedMatches(s) ==
    /\ Truthy(s.precursor_mz) /\ Truthy(s.retention_time)
    /\ Abs(s.precursor_mz - target_mz) < SEED_MZ_TOLERANCE
    /\ Abs(s.retention_time - target_rt) < SEED_RT_TOLERANCE

\* if score >= threshold
MeetsThresholdStrict(score) == score > THRESHOLD

MeetsThreshold(score) == score >= THRESHOLD

InitExpand ==
    /\ CosineIdle /\ OtherIdle
    /\ raw_spectrums \in Collections
    /\ target_mz = 1 /\ target_rt = 1
    /\ scan_i = 1 /\ seed_idx = None
    /\ selected_indices = {} /\ to_explore = <<>> /\ curr = None /\ cand_i = 0
    /\ pair_score = <<>> /\ output_file = NoFile /\ outcome = "running"
    /\ pops = 0 /\ popped = <<>> /\ pc = "scan"

\* for i, s in enumerate(raw_spectrums): the spectrum does not match
ScanSkip ==
    /\ pc = "scan" /\ scan_i <= Len(raw_spectrums)
    /\ ~SeedMatches(raw_spectrums[scan_i])
    /\ scan_i' = scan_i + 1
    /\ UNCHANGED <<cosVars, otherVars, raw_spectrums, target_mz, target_rt, seed_idx, selected_indices,
                   to_explore, curr, cand_i, pair_score, output_file, outcome, pops, popped, pc>>

\* seed_idx = i; break
ScanFound ==
    /\ pc = "scan" /\ scan_i <= Len(raw_spectrums)
    /\ SeedMatches(raw_spectrums[scan_i])
    /\ seed_idx' = scan_i
    /\ pc' = "check"
    /\ UNCHANGED <<cosVars, otherVars, raw_spectrums, target_mz, target_rt, scan_i, selected_indices,
                   to_explore, curr, cand_i, pair_score, output_file, outcome, pops, popped>>

\* the for loop is exhausted
ScanEnd ==
    /\ pc = "scan" /\ scan_i > Len(raw_spectrums)
    /\ pc' = "check"
    /\ UNCHANGED <<cosVars, otherVars, raw_spectrums, target_mz, target_rt, scan_i, seed_idx,
                   selected_indices, to_explore, curr, cand_i, pair_score, output_file,
                   outcome, pops, popped>>

\* if seed_idx is None: print(...); return
ReturnNoSeed ==
    /\ pc = "check" /\ seed_idx = None
    /\ outcome' = "returned"
    /\ pc' = "done"
    /\ UNCHANGED <<cosVars, otherVars, raw_spectrums, target_mz, target_rt, scan_i, seed_idx,
                   selected_indices, to_explore, curr, cand_i, pair_score, output_file, pops, popped>>

\* processed_spectrums = [...]; selected_indices, to_explore = {seed_idx}, [seed_idx]
StartExpansion ==
    /\ pc = "check" /\ seed_idx # None
    /\ selected_indices' = {seed_idx}
    /\ to_explore' = <<seed_idx>>
    /\ pc' = "while"
    /\ UNCHANGED <<cosVars, otherVars, raw_spectrums, target_mz, target_rt, scan_i, seed_idx,
                   curr, cand_i, pair_score, output_file, outcome, pops, popped>>

\* while to_explore: curr = to_explore.pop(0)
Pop ==
    /\ pc = "while" /\ to_explore # <<>>
    /\ curr' = Head(to_explore)
    /\ to_explore' = Tail(to_explore)
    /\ pops' = pops + 1
    /\ popped' = Append(popped, Head(to_explore))
    /\ cand_i' = 1
    /\ pc' = "for"
    /\ UNCHANGED <<cosVars, otherVars, raw_spectrums, target_mz, target_rt, scan_i, seed_idx,
                   selected_indices, pair_score, output_file, outcome>>

\* while to_explore: the queue is empty
ExitWhile ==
    /\ pc = "while" /\ to_explore = <<>>
    /\ pc' = "save"
    /\ UNCHANGED <<cosVars, otherVars, raw_spectrums, target_mz, target_rt, scan_i, seed_idx,
                   selected_indices, to_explore, curr, cand_i, pair_score, output_file,
                   outcome, pops, popped>>

\* if i in selected_indices: continue
ForSkipRescore ==
    /\ pc = "for" /\ cand_i <= Len(raw_spectrums)
    /\ cand_i \in selected_indices
    /\ \E score \in ScoreVals :
          /\ <<curr, cand_i>> \in DOMAIN pair_score => score = pair_score[<<curr, cand_i>>]
          /\ pair_score' = (<<curr, cand_i>> :> score) @@ pair_score
          /\ to_explore' = IF score >= THRESHOLD THEN Append(to_explore, cand_i) ELSE to_explore
    /\ cand_i' = cand_i + 1
    /\ UNCHANGED <<cosVars, otherVars, raw_spectrums, target_mz, target_rt, scan_i, seed_idx,
                   selected_indices, curr, output_file, outcome, pops, popped, pc>>

ForSkip ==
    /\ pc = "for" /\ cand_i <= Len(raw_spectrums)
    /\ cand_i \in selected_indices
    /\ cand_i' = cand_i + 1
    /\ UNCHANGED <<cosVars, otherVars, raw_spectrums, target_mz, target_rt, scan_i, seed_idx,
                   selected_indices, to_explore, curr, pair_score, output_file, outcome,
                   pops, popped, pc>>

\* selected_indices = {i} in place of selected_indices.add(i)
ForScoreReplace ==
    /\ pc = "for" /\ cand_i <= Len(raw_spectrums)
    /\ cand_i \notin selected_indices
    /\ \E score \in ScoreVals :
          /\ <<curr, cand_i>> \in DOMAIN pair_score => score = pair_score[<<curr, cand_i>>]
          /\ pair_score' = (<<curr, cand_i>> :> score) @@ pair_score
          /\ IF MeetsThreshold(score)
             THEN /\ selected_indices' = {cand_i}
                  /\ to_explore' = Append(to_explore, cand_i)
             ELSE UNCHANGED <<selected_indices, to_explore>>
    /\ cand_i' = cand_i + 1
    /\ UNCHANGED <<cosVars, otherVars, raw_spectrums, target_mz, target_rt, scan_i, seed_idx,
                   curr, output_file, outcome, pops, popped, pc>>

\* to_explore.append(i) without selected_indices.add(i)
ForScoreNoMark ==
    /\ pc = "for" /\ cand_i <= Len(raw_spectrums)
    /\ cand_i \notin selected_indices
    /\ \E score \in ScoreVals :
          /\ <<curr, cand_i>> \in DOMAIN pair_score => score = pair_score[<<curr, cand_i>>]
          /\ pair_score' = (<<curr, cand_i>> :> score) @@ pair_score
          /\ to_explore' = IF MeetsThreshold(score) THEN Append(to_explore, cand_i)
                            ELSE to_explore
    /\ cand_i' = cand_i + 1
    /\ UNCHANGED <<cosVars, otherVars, raw_spectrums, target_mz, target_rt, scan_i, seed_idx,
                   selected_indices, curr, output_file, outcome, pops, popped, pc>>

\* score = cosine_sim.pair(processed_spectrums[curr], other)['score']
\* if score >= threshold: selected_indices.add(i); to_explore.append(i)
\* The library's score of a pair is a fixed but unknown value: it is drawn
\* when the pair is first scored and kept in pair_score.
ForScore ==
    /\ pc = "for" /\ cand_i <= Len(raw_spectrums)
    /\ cand_i \notin selected_indices
    /\ \E score \in ScoreVals :
          /\ <<curr, cand_i>> \in DOMAIN pair_score => score = pair_score[<<curr, cand_i>>]
          /\ pair_score' = (<<curr, cand_i>> :> score) @@ pair_score
          /\ IF MeetsThreshold(score)
             THEN /\ selected_indices' = selected_indices \cup {cand_i}
                  /\ to_explore' = Append(to_explore, cand_i)
             ELSE UNCHANGED <<selected_indices, to_explore>>
    /\ cand_i' = cand_i + 1
    /\ UNCHANGED <<cosVars, otherVars, raw_spectrums, target_mz, target_rt, scan_i, seed_idx,
                   curr, output_file, outcome, pops, popped, pc>>

\* the for loop over processed_spectrums is exhausted
ForEnd ==
    /\ pc = "for" /\ cand_i > Len(raw_spectrums)
    /\ pc' = "while"
    /\ UNCHANGED <<cosVars, otherVars, raw_spectrums, target_mz, target_rt, scan_i, seed_idx,
                   selected_indices, to_explore, curr, cand_i, pair_score, output_file,
                   outcome, pops, popped>>

\* final_specs = [...]; save_as_pepmass_rt_mgf(final_specs, output_path)
Save ==
    /\ pc = "save"
    /\ output_file' = selected_indices
    /\ outcome' = "returned"
    /\ pc' = "done"
    /\ UNCHANGED <<cosVars, otherVars, raw_spectrums, target_mz, target_rt, scan_i, seed_idx,
                   selected_indices, to_explore, curr, cand_i, pair_score, pops, popped>>

NextExpand ==
    \/ ScanSkip \/ ScanFound \/ ScanEnd
    \/ ReturnNoSeed \/ StartExpansion
    \/ Pop \/ ExitWhile
    \/ ForSkip \/ ForScore \/ ForEnd
    \/ Save

SpecExpand == InitExpand /\ [][NextExpand]_vars

\* The program is sequential and runs every statement it reaches.
FairSpecExpand == SpecExpand /\ WF_vars(NextExpand)

\* ----------------------------------------------------- SpecPipeline
\* most entries parse_mgf hands to run_similarity_network_pipeline
MaxEntries == 4

\* round(x) of Python 3 for x = n / unit, n >= 0: to the nearest integer, a tie
\* to the even one
RoundHalfEven(n, unit) ==
    LET q == n \div unit
        r == n % unit
    IN  IF 2 * r > unit \/ (2 * r = unit /\ q % 2 = 1) THEN q + 1 ELSE q

\* f"{round(float(pepmass), 1):.1f}-..." : one decimal of the mass only
generate_spectrum_id_coarse(entry) ==
    [pepmass |-> RoundHalfEven(IF entry.PEPMASS = None THEN 0 ELSE entry.PEPMASS, 100),
     rt      |-> RoundHalfEven(IF entry.RTINSECONDS = None THEN 0 ELSE entry.RTINSECONDS, 10)]

\* pepmass = entry.get('PEPMASS', '0.0').split()[0]; rt = entry.get('RTINSECONDS', '0')
\* f"{round(float(pepmass), 2):.2f}-{int(round(float(rt)))}"
\* The string is the pair (hundredths of a Da, seconds).  No PEPMASS of the
\* inputs lies halfway between two hundredths.
generate_spectrum_id(entry) ==
    [pepmass |-> RoundHalfEven(IF entry.PEPMASS = None THEN 0 ELSE entry.PEPMASS, 10),
     rt      |-> RoundHalfEven(IF entry.RTINSECONDS = None THEN 0 ELSE entry.RTINSECONDS, 10)]

\* position of the key mz in the dict d, 0 if it is not a key
KeyPos(d, mz) ==
    IF \E k \in DOMAIN d : Mz(d[k]) = mz
    THEN CHOOSE k \in DOMAIN d : Mz(d[k]) = mz
    ELSE 0

\* peaks = {mz: i for mz, i in entry.get('peaks', [])} : a later peak of the
\* same m/z replaces the value and keeps the key's place
RECURSIVE DictOf(_, _, _)
DictOf(list, k, d) ==
    IF k > Len(list) THEN d
    ELSE LET at == KeyPos(d, Mz(list[k]))
         IN  DictOf(list, k + 1,
                    IF at = 0 THEN Append(d, list[k]) ELSE [d EXCEPT ![at] = list[k]])

\* np.log(n) in units of 1e-7, n in 1..20
LnTable ==
    << 0, 6931472, 10986123, 13862944, 16094379, 17917595, 19459101, 20794415,
       21972246, 23025851, 23978953, 24849066, 25649494, 26390573, 27080502,
       27725887, 28332133, 28903718, 29444390, 29957323 >>

\* p = intensities[intensities > 0]
PositiveIntensities(d) ==
    LET all == [k \in DOMAIN d |-> Intensity(d[k])]
    IN  SelectSeq(all, LAMBDA x : x > 0)

RECURSIVE SumSeq(_, _)
SumSeq(p, k) == IF k > Len(p) THEN 0 ELSE p[k] + SumSeq(p, k + 1)

\* sum over the peaks of x * (ln(total) - ln(x))
RECURSIVE SumXLog(_, _, _)
SumXLog(p, k, total) ==
    IF k > Len(p) THEN 0
    ELSE p[k] * (LnTable[total] - LnTable[p[k]]) + SumXLog(p, k + 1, total)

\* if len(p) <= 1: return 0.0
\* prob = p / np.sum(p); return -np.sum(prob * np.log(prob + 1e-12))
calculate_spectral_entropy(d) ==
    LET p == PositiveIntensities(d)
    IN  IF Len(p) <= 1 THEN 0
        ELSE SumXLog(p, 1, SumSeq(p, 1)) \div SumSeq(p, 1)

\* ratio = min(e1, e2) / max(e1, e2) in every case
EntropyRatioNoFallback(e1, e2) ==
    [num |-> IF e1 < e2 THEN e1 ELSE e2, den |-> IF e1 < e2 THEN e2 ELSE e1]

\* if e1 > 0 and e2 > 0: ratio = min(e1, e2) / max(e1, e2)  else: ratio = 1.0
\* The quotient is kept as the fraction num / den.
EntropyRatio(e1, e2) ==
    IF e1 > 0 /\ e2 > 0
    THEN [num |-> IF e1 < e2 THEN e1 ELSE e2, den |-> IF e1 < e2 THEN e2 ELSE e1]
    ELSE [num |-> 1, den |-> 1]

\* the first digits decimals of num / den (num <= den) and what is left over
RECURSIVE LongDivision(_, _, _, _)
LongDivision(q, rem, den, digits) ==
    IF digits = 0 THEN [q |-> q, rem |-> rem]
    ELSE LongDivision(q * 10 + (rem * 10) \div den, (rem * 10) % den, den, digits - 1)

\* round(ratio, 4) in units of 0.0001
RoundRatio(ratio) ==
    IF ratio.num = ratio.den THEN FOUR_DECIMALS
    ELSE LET d == LongDivision(0, ratio.num, ratio.den, 4)
         IN  IF 2 * d.rem > ratio.den \/ (2 * d.rem = ratio.den /\ d.q % 2 = 1)
             THEN d.q + 1 ELSE d.q

\* a / b <= c / d for a, c >= 0 and b, d > 0, by continued fractions
RECURSIVE FracLeq(_, _, _, _)
FracLeq(a, b, c, d) ==
    IF a \div b # c \div d THEN a \div b < c \div d
    ELSE IF a % b = 0 THEN TRUE
    ELSE IF c % d = 0 THEN FALSE
    ELSE FracLeq(d, c % d, b, a % b)

\* (r - 1/2) / 10000 <= num / sqrt(densq)
HalfBelow(r, s) ==
    FracLeq((2 * r - 1) * (2 * r - 1), 4 * FOUR_DECIMALS * FOUR_DECIMALS,
            s.num * s.num, s.densq)

\* the largest r in lo..hi with HalfBelow(r, s); lo itself if there is none
RECURSIVE LargestHalfBelow(_, _, _)
LargestHalfBelow(lo, hi, s) ==
    IF lo >= hi THEN lo
    ELSE LET mid == (lo + hi + 1) \div 2
         IN  IF HalfBelow(mid, s) THEN LargestHalfBelow(mid, hi, s)
             ELSE LargestHalfBelow(lo, mid - 1, s)

\* round(cos_sim, 4) in units of 0.0001, cos_sim = num / sqrt(densq)
RoundSimilarity(s) ==
    IF s.num = 0 THEN 0
    ELSE LET r == LargestHalfBelow(0, FOUR_DECIMALS + 1, s)
             tie == r > 0 /\ FracLeq(s.num * s.num, s.densq,
                                     (2 * r - 1) * (2 * r - 1),
                                     4 * FOUR_DECIMALS * FOUR_DECIMALS)
         IN  IF tie /\ r % 2 = 1 THEN r - 1 ELSE r

\* the entry appended to processed_data
Processed(entry) ==
    LET sid == generate_spectrum_id(entry)
        peaks == DictOf(entry.peaks, 1, <<>>)
    IN  [id |-> sid, peaks |-> peaks, entropy |-> calculate_spectral_entropy(peaks),
         pepmass |-> sid.pepmass, retention_time |-> sid.rt]

\* combinations(enumerate(processed_data), 2) with (i, i) not left out
NextPairWithSelf(i, j, n) == IF j < n THEN <<i, j + 1>> ELSE <<i + 1, i + 1>>

\* the pair after (i, j) in combinations(enumerate(processed_data), 2)
NextPair(i, j, n) == IF j < n THEN <<i, j + 1>> ELSE <<i + 1, i + 2>>

\* line_style = "dash" if edge["entropy_ratio"] < ENTROPY_RATIO_LIMIT else "solid"
LineStyle(edge) == IF edge.entropy_ratio < ENTROPY_RATIO_LIMIT THEN "dash" ELSE "solid"

\* the <node> elements save_cytoscape_xgmml writes
XgmmlNodes(all_nodes) ==
    [k \in DOMAIN all_nodes |->
        [id |-> all_nodes[k].id, pepmass |-> all_nodes[k].pepmass,
         rt |-> all_nodes[k].retention_time, spectral_entropy |-> all_nodes[k].entropy]]

\* the <edge> elements save_cytoscape_xgmml writes (edge id: enumerate from 0)
XgmmlEdges(es) ==
    [k \in DOMAIN es |->
        [id |-> k - 1, source |-> es[k].source, target |-> es[k].target,
         cosine_similarity |-> es[k].similarity, entropy_ratio |-> es[k].entropy_ratio,
         line_style |-> LineStyle(es[k])]]

\* Peak lists of parsed entries (never empty); m/z in units of 0.005 Da at
\* 100, 200, 300 and 400 Da.  One list holds a peak of intensity 0, one
\* lists an m/z twice (its dict is {100: 2, 200: 2}).
PeaksThree      == <<<<20000, 2>>, <<40000, 2>>, <<60000, 1>>>>
PeaksOneAndZero == <<<<20000, 1>>, <<40000, 0>>>>
PeaksFour       == <<<<20000, 9>>, <<40000, 3>>, <<60000, 3>>, <<80000, 1>>>>
PeaksTwo        == <<<<20000, 8>>, <<40000, 11>>>>
PeaksSkewed     == <<<<20000, 2>>, <<40000, 7>>, <<60000, 2>>>>
PeaksRepeated   == <<<<20000, 1>>, <<40000, 2>>, <<20000, 2>>>>

\* The entries parse_mgf may return.  PEPMASS 100.004 and 100.001 with
\* RTINSECONDS 1.2 and 1.4 give the same id; 0.5 s and 1.5 s are ties of
\* round(); one entry has neither PEPMASS nor RTINSECONDS.
EntryKinds ==
    { [PEPMASS |-> 100004, RTINSECONDS |-> 12,   peaks |-> PeaksRepeated],
      [PEPMASS |-> 100001, RTINSECONDS |-> 14,   peaks |-> PeaksThree],
      [PEPMASS |-> 100006, RTINSECONDS |-> 12,   peaks |-> PeaksOneAndZero],
      [PEPMASS |-> None,   RTINSECONDS |-> None, peaks |-> PeaksFour],
      [PEPMASS |-> 100004, RTINSECONDS |-> 5,    peaks |-> PeaksTwo],
      [PEPMASS |-> 100004, RTINSECONDS |-> 15,   peaks |-> PeaksSkewed] }

EntryLists == UNION {[1..n -> EntryKinds] : n \in 0..MaxEntries}

InitPipeline ==
    /\ CosineIdle /\ ExpandIdle /\ MergeIdle /\ TicIdle /\ MainIdle
    /\ entries \in EntryLists
    /\ processed_data = <<>> /\ pair_i = 0 /\ pair_j = 0
    /\ edges = <<>> /\ scored = <<>> /\ edge_trace = <<>> /\ xgmml = NoXgmml
    /\ pipe_pc = "entries"

\* for entry in entries: ... processed_data.append({...})
ProcessEntry ==
    /\ pipe_pc = "entries" /\ Len(processed_data) < Len(entries)
    /\ processed_data' = Append(processed_data, Processed(entries[Len(processed_data) + 1]))
    /\ UNCHANGED <<outsidePipeline, entries, pair_i, pair_j, edges, scored, edge_trace,
                   xgmml, pipe_pc>>

\* edges = []; for (i, d1), (j, d2) in combinations(enumerate(processed_data), 2):
StartPairs ==
    /\ pipe_pc = "entries" /\ Len(processed_data) = Len(entries)
    /\ pair_i' = 1 /\ pair_j' = 2
    /\ edges' = <<>>
    /\ pipe_pc' = "pairs"
    /\ UNCHANGED <<outsidePipeline, entries, processed_data, scored, edge_trace, xgmml>>

\* cos_sim = cosine_similarity(d1['peaks'], d2['peaks'])
\* if cos_sim >= SIM_THRESHOLD: ... edges.append({...})
ScorePair ==
    /\ pipe_pc = "pairs" /\ pair_j <= Len(processed_data)
    /\ LET d1 == processed_data[pair_i]
           d2 == processed_data[pair_j]
           cs == cosine_similarity(d1.peaks, d2.peaks)
           ratio == EntropyRatio(d1.entropy, d2.entropy)
           next == NextPair(pair_i, pair_j, Len(processed_data))
       IN  /\ scored' = Append(scored, <<pair_i, pair_j>>)
           /\ IF PassesSimThreshold(cs)
              THEN /\ edges' = Append(edges,
                         [source |-> d1.id, target |-> d2.id,
                          similarity |-> RoundSimilarity(cs),
                          entropy_ratio |-> RoundRatio(ratio)])
                   /\ edge_trace' = Append(edge_trace,
                         [i |-> pair_i, j |-> pair_j, ratio |-> ratio])
              ELSE UNCHANGED <<edges, edge_trace>>
           /\ pair_i' = next[1] /\ pair_j' = next[2]
    /\ UNCHANGED <<outsidePipeline, entries, processed_data, xgmml, pipe_pc>>

\* save_cytoscape_xgmml(output_xgmml, processed_data, edges)
SaveXgmml ==
    /\ pipe_pc = "pairs" /\ pair_j > Len(processed_data)
    /\ xgmml' = [written |-> TRUE, nodes |-> XgmmlNodes(processed_data),
                 edges |-> XgmmlEdges(edges)]
    /\ pipe_pc' = "done"
    /\ UNCHANGED <<outsidePipeline, entries, processed_data, pair_i, pair_j, edges, scored,
                   edge_trace>>

NextPipeline == ProcessEntry \/ StartPairs \/ ScorePair \/ SaveXgmml

SpecPipeline == InitPipeline /\ [][NextPipeline]_vars

\* ----------------------------------------------------- SpecMerge
\* most peaks of the spectrum handed to merge_peaks_internal
MaxMergePeaks == 3

\* m/z of the spectrum's peaks in units of 0.01 Da: neighbours of the grid
\* are inside the tolerance, next-but-one neighbours exactly at it
MergeMzGrid == 0..4
MergeIntensities == 1..3

\* spectrum.peaks of a matchms Spectrum: m/z in non-decreasing order
MergePeakLists ==
    UNION {{s \in [1..n -> MergeMzGrid \X MergeIntensities] :
               \A k \in 1..(n - 1) : Mz(s[k]) <= Mz(s[k + 1])} : n \in 0..MaxMergePeaks}

MergeMetadata == [precursor_mz |-> 100, retention_time |-> 5]

\* spectrum is None
NoneSpectrum == [none |-> TRUE, peaks |-> <<>>, metadata |-> <<>>]

MergeInputs ==
    {[none |-> FALSE, peaks |-> p, metadata |-> MergeMetadata] : p \in MergePeakLists}
        \cup {NoneSpectrum}

\* np.argsort(intensities)[::-1]: the positions in an order of non-increasing
\* intensity; the order among equal intensities is left to the sort
DescendingOrders(peaks) ==
    {o \in [DOMAIN peaks -> DOMAIN peaks] :
        /\ \A a, b \in DOMAIN peaks : a # b => o[a] # o[b]
        /\ \A a, b \in DOMAIN peaks :
              a < b => Intensity(peaks[o[a]]) >= Intensity(peaks[o[b]])}

\* abs(mz[i] - ref) < tolerance
WithinMergeToleranceStrict(a, b) == Abs(a - b) < MERGE_TOLERANCE

\* abs(mz[i] - ref) <= tolerance
WithinMergeTolerance(a, b) == Abs(a - b) <= MERGE_TOLERANCE

\* keep_idx.sort()
RECURSIVE SortedSeq(_)
SortedSeq(set) ==
    IF set = {} THEN <<>>
    ELSE LET least == CHOOSE x \in set : \A y \in set : x <= y
         IN  <<least>> \o SortedSeq(set \ {least})

InitMerge ==
    /\ CosineIdle /\ ExpandIdle /\ PipelineIdle /\ TicIdle /\ MainIdle
    /\ spectrum \in MergeInputs
    /\ idx_sorted = <<>> /\ merge_k = 0 /\ keep_idx = <<>> /\ seen_mz = <<>>
    /\ merged = NoneSpectrum
    /\ merge_pc = "call"

\* if spectrum is None: return None
ReturnNone ==
    /\ merge_pc = "call" /\ spectrum.none
    /\ merged' = NoneSpectrum
    /\ merge_pc' = "done"
    /\ UNCHANGED <<outsideMerge, spectrum, idx_sorted, merge_k, keep_idx, seen_mz>>

\* idx_sorted = np.argsort(intensities)[::-1]; keep_idx, seen_mz = [], []
Argsort ==
    /\ merge_pc = "call" /\ ~spectrum.none
    /\ idx_sorted' \in DescendingOrders(spectrum.peaks)
    /\ keep_idx' = <<>> /\ seen_mz' = <<>>
    /\ merge_k' = 1
    /\ merge_pc' = "for"
    /\ UNCHANGED <<outsideMerge, spectrum, merged>>

\* for i in idx_sorted: if not any(...): keep_idx.append(i); seen_mz.append(mz[i])
MergeStep ==
    /\ merge_pc = "for" /\ merge_k <= Len(idx_sorted)
    /\ LET i == idx_sorted[merge_k]
           mz_i == Mz(spectrum.peaks[i])
       IN  IF ~(\E r \in DOMAIN seen_mz : WithinMergeTolerance(mz_i, seen_mz[r]))
           THEN /\ keep_idx' = Append(keep_idx, i)
                /\ seen_mz' = Append(seen_mz, mz_i)
           ELSE UNCHANGED <<keep_idx, seen_mz>>
    /\ merge_k' = merge_k + 1
    /\ UNCHANGED <<outsideMerge, spectrum, idx_sorted, merged, merge_pc>>

\* keep_idx.sort()
\* return Spectrum(mz=mz[keep_idx], intensities=intensities[keep_idx],
\*                 metadata=spectrum.metadata.copy())
MergeReturn ==
    /\ merge_pc = "for" /\ merge_k > Len(idx_sorted)
    /\ keep_idx' = SortedSeq({keep_idx[k] : k \in DOMAIN keep_idx})
    /\ merged' = [none |-> FALSE,
                  peaks |-> [k \in DOMAIN keep_idx |-> spectrum.peaks[keep_idx'[k]]],
                  metadata |-> spectrum.metadata]
    /\ merge_pc' = "done"
    /\ UNCHANGED <<outsideMerge, spectrum, idx_sorted, merge_k, seen_mz>>

NextMerge == ReturnNone \/ Argsort \/ MergeStep \/ MergeReturn

SpecMerge == InitMerge /\ [][NextMerge]_vars

\* ----------------------------------------------------- SpecTIC
\* most BEGIN IONS..END IONS blocks in the input file
MaxBlocks == 3

\* A line of the input file, by what the code reads from it: role says what
\* the line is, parts is len(stripped_line.split()), second is float(parts[1])
\* in units of 1000, None when the line has no second token or float() raises
\* ValueError.
BeginLine == [role |-> "begin", parts |-> 2, second |-> None]
EndLine == [role |-> "end", parts |-> 2, second |-> None]
\* an empty line
BlankLine == [role |-> "blank", parts |-> 0, second |-> None]
\* "m/z intensity"
PeakLine(intensity) == [role |-> "peak", parts |-> 2, second |-> intensity]
\* "CHARGE=1+"
HeaderOneToken == [role |-> "header", parts |-> 1, second |-> None]
\* "TITLE=sample A"
HeaderTextToken == [role |-> "header", parts |-> 2, second |-> None]
\* "PEPMASS=300.5 1000"
HeaderNumberToken == [role |-> "header", parts |-> 2, second |-> 1]

\* the lines between BEGIN IONS and END IONS of a block
BlockBodies ==
    { <<>>,
      <<HeaderOneToken, PeakLine(1)>>,
      <<HeaderOneToken, PeakLine(1), PeakLine(1)>>,
      <<HeaderTextToken, PeakLine(2)>>,
      <<HeaderNumberToken, PeakLine(1)>> }

\* a block, followed by an empty line or not
BlockTexts ==
    {<<BeginLine>> \o b \o <<EndLine>> : b \in BlockBodies}
        \cup {<<BeginLine>> \o b \o <<EndLine, BlankLine>> : b \in BlockBodies}

RECURSIVE Flatten(_)
Flatten(blocks) ==
    IF blocks = <<>> THEN <<>> ELSE Head(blocks) \o Flatten(Tail(blocks))

\* the input files: up to MaxBlocks blocks
TicInputs == {Flatten(bs) : bs \in UNION {[1..n -> BlockTexts] : n \in 0..MaxBlocks}}

InitTIC ==
    /\ CosineIdle /\ ExpandIdle /\ PipelineIdle /\ MergeIdle /\ MainIdle
    /\ infile \in TicInputs
    /\ line_no = 1
    /\ current_spectrum = <<>> /\ in_spectrum = FALSE /\ total_intensity = 0
    /\ outfile = <<>>
    /\ tic_pc = "lines"

\* if stripped_line == 'BEGIN IONS': ...; continue
LineBegin ==
    /\ tic_pc = "lines" /\ line_no <= Len(infile)
    /\ infile[line_no].role = "begin"
    /\ in_spectrum' = TRUE
    /\ current_spectrum' = <<infile[line_no]>>
    /\ total_intensity' = 0
    /\ line_no' = line_no + 1
    /\ UNCHANGED <<outsideTIC, infile, outfile, tic_pc>>

\* elif stripped_line == 'END IONS': ...
\* if total_intensity >= min_total_intensity: outfile.writelines(current_spectrum)
LineEnd ==
    /\ tic_pc = "lines" /\ line_no <= Len(infile)
    /\ infile[line_no].role = "end"
    /\ in_spectrum' = FALSE
    /\ current_spectrum' = Append(current_spectrum, infile[line_no])
    /\ outfile' = IF total_intensity >= MIN_TOTAL_INTENSITY
                  THEN outfile \o current_spectrum'
                  ELSE outfile
    /\ line_no' = line_no + 1
    /\ UNCHANGED <<outsideTIC, infile, total_intensity, tic_pc>>

\* if in_spectrum: current_spectrum.append(line); parts = stripped_line.split()
\* if len(parts) >= 2: try: total_intensity += float(parts[1])
\*                     except ValueError: continue
LineInside ==
    /\ tic_pc = "lines" /\ line_no <= Len(infile)
    /\ infile[line_no].role \notin {"begin", "end"}
    /\ in_spectrum
    /\ current_spectrum' = Append(current_spectrum, infile[line_no])
    /\ total_intensity' =
          IF infile[line_no].parts >= 2 /\ infile[line_no].second # None
          THEN total_intensity + infile[line_no].second
          ELSE total_intensity
    /\ line_no' = line_no + 1
    /\ UNCHANGED <<outsideTIC, infile, in_spectrum, outfile, tic_pc>>

\* a line outside every block: nothing is done with it
LineOutside ==
    /\ tic_pc = "lines" /\ line_no <= Len(infile)
    /\ infile[line_no].role \notin {"begin", "end"}
    /\ ~in_spectrum
    /\ line_no' = line_no + 1
    /\ UNCHANGED <<outsideTIC, infile, in_spectrum, current_spectrum, total_intensity,
                   outfile, tic_pc>>

\* the for loop is exhausted: print("Processing complete!"), the files are closed
TicFinish ==
    /\ tic_pc = "lines" /\ line_no > Len(infile)
    /\ tic_pc' = "done"
    /\ UNCHANGED <<outsideTIC, infile, line_no, in_spectrum, current_spectrum,
                   total_intensity, outfile>>

NextTIC == LineBegin \/ LineEnd \/ LineInside \/ LineOutside \/ TicFinish

SpecTIC == InitTIC /\ [][NextTIC]_vars

\* ----------------------------------------------------- SpecMain
\* The files of run_fiamn_pipeline.  A file is "absent", or holds no usable
\* spectrum ("empty"), or holds at least one ("spectra"); the network file
\* holds the nodes of the spectra it was built from.
RawInput == "spectral_denoising/Text.mgf"
DenoisedMgf == "01_denoising.mgf"
TicFilteredMgf == "02_filtered_TIC.mgf"
FamilyNetworkMgf == "03_family_network.mgf"
PrecursorFilteredMgf == "04_precursor_formula_filter.mgf"
SkeletonFilteredMgf == "05_skeleton_fragment_filter.mgf"
FinalXgmml == "06_skeleton_similarity_network.xgmml"

PipelineFiles ==
    {RawInput, DenoisedMgf, TicFilteredMgf, FamilyNetworkMgf, PrecursorFilteredMgf,
     SkeletonFilteredMgf, FinalXgmml}

\* what a filter may write, given what it read
Filtered(content) == IF content = "spectra" THEN {"empty", "spectra"} ELSE {"empty"}

\* The raw input exists (if os.path.exists("spectral_denoising/Text.mgf")); the
\* working directory may hold any files of earlier runs.
InitMain ==
    /\ CosineIdle /\ ExpandIdle /\ PipelineIdle /\ MergeIdle /\ TicIdle
    /\ fs \in [PipelineFiles -> {"absent", "empty", "spectra"}]
    /\ fs[RawInput] # "absent"
    /\ written = {}
    /\ seed_found = "pending"
    /\ success_printed = FALSE
    /\ main_pc = "step1"

\* filter_mgf_by_nonzero_mode(raw_input, denoised_mgf)
Step1 ==
    /\ main_pc = "step1"
    /\ IF fs[RawInput] = "absent"
       THEN UNCHANGED <<fs, written>>
       ELSE /\ \E c \in Filtered(fs[RawInput]) : fs' = [fs EXCEPT ![DenoisedMgf] = c]
            /\ written' = written \cup {DenoisedMgf}
    /\ main_pc' = "step2"
    /\ UNCHANGED <<outsideMain, seed_found, success_printed>>

\* filter_mgf_by_total_intensity(denoised_mgf, tic_filtered_mgf, ...): a missing
\* input is caught inside and reported by a print
Step2 ==
    /\ main_pc = "step2"
    /\ IF fs[DenoisedMgf] = "absent"
       THEN UNCHANGED <<fs, written>>
       ELSE /\ \E c \in Filtered(fs[DenoisedMgf]) : fs' = [fs EXCEPT ![TicFilteredMgf] = c]
            /\ written' = written \cup {TicFilteredMgf}
    /\ main_pc' = "step3"
    /\ UNCHANGED <<outsideMain, seed_found, success_printed>>

\* run_final_restoration_v2(...): a seed is found and the family is saved
Step3Found ==
    /\ main_pc = "step3" /\ fs[TicFilteredMgf] = "spectra"
    /\ seed_found' = "found"
    /\ fs' = [fs EXCEPT ![FamilyNetworkMgf] = "spectra"]
    /\ written' = written \cup {FamilyNetworkMgf}
    /\ main_pc' = "step4"
    /\ UNCHANGED <<outsideMain, success_printed>>

\* run_final_restoration_v2(...): if seed_idx is None: print(...); return
\* (step 2 has written its output, so the input of step 3 exists)
Step3NoSeed ==
    /\ main_pc = "step3" /\ fs[TicFilteredMgf] # "absent"
    /\ seed_found' = "none"
    /\ main_pc' = "step4"
    /\ UNCHANGED <<outsideMain, fs, written, success_printed>>

\* filter_mgf_with_nitrogen_rule(family_network_mgf, precursor_filtered_mgf)
Step4 ==
    /\ main_pc = "step4"
    /\ IF fs[FamilyNetworkMgf] = "absent"
       THEN UNCHANGED <<fs, written>>
       ELSE /\ \E c \in Filtered(fs[FamilyNetworkMgf]) :
                  fs' = [fs EXCEPT ![PrecursorFilteredMgf] = c]
            /\ written' = written \cup {PrecursorFilteredMgf}
    /\ main_pc' = "step5"
    /\ UNCHANGED <<outsideMain, seed_found, success_printed>>

\* run_skeleton_fragment_filter(precursor_filtered_mgf, skeleton_filtered_mgf)
\* if not mgf_entries: print(...); return  --  else write_mgf(...)
Step5 ==
    /\ main_pc = "step5" /\ fs[PrecursorFilteredMgf] # "absent"
    /\ IF fs[PrecursorFilteredMgf] = "empty"
       THEN UNCHANGED <<fs, written>>
       ELSE /\ \E c \in Filtered(fs[PrecursorFilteredMgf]) :
                  fs' = [fs EXCEPT ![SkeletonFilteredMgf] = c]
            /\ written' = written \cup {SkeletonFilteredMgf}
    /\ main_pc' = "step6"
    /\ UNCHANGED <<outsideMain, seed_found, success_printed>>

\* run_skeleton_fragment_filter: parse_mgf opens a file that does not exist
Step5Raise ==
    /\ main_pc = "step5" /\ fs[PrecursorFilteredMgf] = "absent"
    /\ main_pc' = "raised"
    /\ UNCHANGED <<outsideMain, fs, written, seed_found, success_printed>>

\* run_similarity_network_pipeline(skeleton_filtered_mgf, final_xgmml)
Step6 ==
    /\ main_pc = "step6" /\ fs[SkeletonFilteredMgf] # "absent"
    /\ fs' = [fs EXCEPT ![FinalXgmml] = fs[SkeletonFilteredMgf]]
    /\ written' = written \cup {FinalXgmml}
    /\ main_pc' = "finish"
    /\ UNCHANGED <<outsideMain, seed_found, success_printed>>

\* run_similarity_network_pipeline: parse_mgf opens a file that does not exist
Step6Raise ==
    /\ main_pc = "step6" /\ fs[SkeletonFilteredMgf] = "absent"
    /\ main_pc' = "raised"
    /\ UNCHANGED <<outsideMain, fs, written, seed_found, success_printed>>

\* print(f"Pipeline executed successfully! ...")
PrintSuccess ==
    /\ main_pc = "finish"
    /\ success_printed' = TRUE
    /\ main_pc' = "done"
    /\ UNCHANGED <<outsideMain, fs, written, seed_found>>

NextMain ==
    \/ Step1 \/ Step2
    \/ Step3Found \/ Step3NoSeed
    \/ Step4
    \/ Step5 \/ Step5Raise
    \/ Step6 \/ Step6Raise
    \/ PrintSuccess

SpecMain == InitMain /\ [][NextMain]_vars

\* ------------------------------------------------ claims on SpecCosine
WithinTol(a, b) == Abs(a - b) <= MZ_TOLERANCE_DA

\* C1: swapping the two arguments of cosine_similarity never changes the
\* matched dot-product nor the score, whatever the insertion order of the
\* peaks and however the tolerance windows overlap.
C1_Symmetry ==
    cos_pc = "done" =>
        LET swapped == cosine_similarity(peaks2, peaks1)
        IN  /\ swapped.num = cos_sim.num
            /\ swapped.divided = cos_sim.divided
            /\ ScoreEq(swapped, cos_sim)

\* Two peaks on each side, all four within the tolerance of each other, listed
\* in descending m/z order on the first side, with a positive score.
C1_Witness ==
    /\ cos_pc = "done"
    /\ Len(peaks1) = 2 /\ Len(peaks2) = 2
    /\ \A a \in 1..2, b \in 1..2 : WithinTol(Mz(peaks1[a]), Mz(peaks2[b]))
    /\ Mz(peaks1[1]) > Mz(peaks1[2])
    /\ Intensity(peaks1[1]) # Intensity(peaks1[2])
    /\ cos_sim.num > 0

Matchings(p1, p2) == [1..Len(p1) -> 0..Len(p2)]

\* m is the greedy first-unmatched matching: one-to-one, within the tolerance,
\* and each peak of p1 takes the first peak of p2 within the tolerance that no
\* earlier peak of p1 has taken (none exactly when there is no such peak).
IsGreedyMatching(m, p1, p2) ==
    \A i \in 1..Len(p1) :
        LET free == {j \in 1..Len(p2) :
                        /\ WithinTol(Mz(p1[i]), Mz(p2[j]))
                        /\ \A h \in 1..(i - 1) : m[h] # j}
        IN  /\ (free = {}) <=> (m[i] = 0)
            /\ m[i] # 0 => (m[i] \in free /\ \A j \in free : m[i] <= j)

IsOneToOne(m) == \A i, h \in DOMAIN m : (i # h /\ m[i] # 0) => m[i] # m[h]

RECURSIVE MatchedDot(_, _, _, _)
MatchedDot(m, p1, p2, i) ==
    IF i > Len(p1) THEN 0
    ELSE (IF m[i] = 0 THEN 0 ELSE Intensity(p1[i]) * Intensity(p2[m[i]]))
         + MatchedDot(m, p1, p2, i + 1)

\* C4: the score is the sum of intensityA * intensityB over the one-to-one
\* greedy matching, divided by the product of the full-vector norms; unmatched
\* peaks contribute nothing.  For the scenario A = {(100.0,10),(200.0,20)},
\* B = {(100.005,10),(300.0,5)} the dot-product is 100 and the score 0.4.
C4_GreedyOneToOneDot ==
    cos_pc = "done" =>
        /\ \E m \in Matchings(peaks1, peaks2) :
              /\ IsGreedyMatching(m, peaks1, peaks2)
              /\ IsOneToOne(m)
              /\ matched = {m[i] : i \in DOMAIN m} \ {0}
              /\ dot_product = MatchedDot(m, peaks1, peaks2, 1)
        /\ cos_sim.divided =>
              /\ cos_sim.num = dot_product
              /\ cos_sim.densq = SumSq(peaks1) * SumSq(peaks2)
        /\ (peaks1 = ScenarioA /\ peaks2 = ScenarioB) =>
              /\ dot_product = 100
              /\ cos_sim.num = 100 /\ cos_sim.densq = 250 * 250
              /\ 5 * cos_sim.num = 2 * 250

\* The concrete scenario has been scored.
C4_Witness ==
    cos_pc = "done" /\ peaks1 = ScenarioA /\ peaks2 = ScenarioB /\ matched = {1}

\* The insertion orders of a peak map
Orderings(p) ==
    {q \in [1..Len(p) -> {p[k] : k \in 1..Len(p)}] :
        \A k \in 1..Len(p) : \E h \in 1..Len(p) : q[h] = p[k]}

\* C5: the score of two spectra given as sets of peaks does not depend on the
\* order in which the peaks were listed (the scorer would process them in
\* ascending m/z order).
C5_OrderIndependent ==
    cos_pc = "done" =>
        \A q1 \in Orderings(peaks1), q2 \in Orderings(peaks2) :
            ScoreEq(cosine_similarity(q1, q2), cos_sim)

\* C6: an empty or all-zero spectrum on either side gives exactly 0.0 with no
\* division attempted, and such a pair never passes the edge test of the
\* pairwise builder.
C6_ZeroNormScoresZero ==
    (cos_pc = "done" /\ (SumSq(peaks1) = 0 \/ SumSq(peaks2) = 0)) =>
        /\ ~cos_sim.divided
        /\ cos_sim.num = 0 /\ cos_sim.densq = 1
        /\ ~PassesSimThreshold(cos_sim)

\* A nonempty all-zero spectrum scored against a spectrum of nonzero norm whose
\* peaks lie within the tolerance.
C6_Witness ==
    /\ cos_pc = "done"
    /\ peaks1 # <<>> /\ SumSq(peaks1) = 0
    /\ SumSq(peaks2) # 0
    /\ matched # {}

\* ------------------------------------------------ claims on SpecExpand
Indices == 1..Len(raw_spectrums)

\* the pair has been scored, at or above the threshold
ScoredAtLeastThreshold(a, b) ==
    <<a, b>> \in DOMAIN pair_score /\ pair_score[<<a, b>>] >= THRESHOLD

\* The closure of S under 'score(a, b) >= threshold'
RECURSIVE Closure(_)
Closure(S) ==
    LET T == S \cup {b \in Indices : \E a \in S : ScoredAtLeastThreshold(a, b)}
    IN  IF T = S THEN S ELSE Closure(T)

\* C7: when the expansion has finished, the selected set is exactly the closure
\* of the seed under 'score(popped, candidate) >= threshold': every selected
\* spectrum is reached from the seed by a chain of scores >= threshold, and
\* every unselected spectrum has been scored below the threshold against
\* every selected one.
C7_SelectedIsClosure ==
    pc \in {"save", "done"} /\ seed_idx # None =>
        /\ selected_indices = Closure({seed_idx})
        /\ \A a \in selected_indices : \A b \in Indices \ selected_indices :
              /\ <<a, b>> \in DOMAIN pair_score
              /\ pair_score[<<a, b>>] < THRESHOLD

\* A finished expansion in which one spectrum was reached only through a
\* non-seed spectrum, scoring exactly the threshold, and one was left out.
C7_Witness ==
    /\ pc = "done" /\ seed_idx # None
    /\ Indices \ selected_indices # {}
    /\ \E b \in selected_indices :
          /\ ~ScoredAtLeastThreshold(seed_idx, b)
          /\ \E a \in selected_indices \ {seed_idx} :
                <<a, b>> \in DOMAIN pair_score /\ pair_score[<<a, b>>] = THRESHOLD

\* the index of the first spectrum lying in the target window, None when there is none
InWindow(s) ==
    /\ s.precursor_mz # None /\ s.retention_time # None
    /\ Abs(s.precursor_mz - target_mz) < SEED_MZ_TOLERANCE
    /\ Abs(s.retention_time - target_rt) < SEED_RT_TOLERANCE

FirstInWindow ==
    LET hits == {i \in Indices : InWindow(raw_spectrums[i])}
    IN  IF hits = {} THEN None ELSE CHOOSE i \in hits : \A h \in hits : i <= h

\* C8: with no spectrum matching the target window the call fails with a
\* SeedNotFound error raised to its caller, expands nothing and writes no file.
C8_SeedNotFoundRaised ==
    (pc = "done" /\ seed_idx = None) =>
        /\ outcome = "raised"
        /\ pops = 0 /\ selected_indices = {}
        /\ output_file = NoFile

\* C9: the seed is the first spectrum in input order whose precursor m/z and
\* retention time both differ from the targets by strictly less than the
\* tolerances, a spectrum whose retention time or precursor m/z is 0 included.
C9_SeedIsFirstInWindow ==
    pc \notin {"idle", "scan"} => seed_idx = FirstInWindow

\* C10: the expansion loop terminates: it makes at most one pop per spectrum of
\* the collection and then leaves with the queue empty.
C10_ExpansionTerminates ==
    /\ [](pops <= Len(raw_spectrums))
    /\ (pc = "while") ~> (pc = "save" /\ to_explore = <<>>)

\* The expansion has ended after popping every spectrum of a full collection.
C10_Witness ==
    /\ pc = "save" /\ to_explore = <<>>
    /\ Len(raw_spectrums) = MaxSpectra
    /\ pops = Len(raw_spectrums)

\* C11: throughout the breadth-first expansion the selected set contains the
\* seed, and no step removes an index from it (it only grows).
C11_SelectedOnlyGrows ==
    /\ [](pc \in {"while", "for", "save"} => seed_idx \in selected_indices)
    /\ [][selected_indices \subseteq selected_indices']_vars

\* the expansion has added two indices to the seed and popped two
C11_Witness ==
    /\ pc = "for" /\ Cardinality(selected_indices) = 3 /\ pops = 2
    /\ seed_idx \in selected_indices

\* the elements of a sequence
Range(q) == {q[k] : k \in DOMAIN q}

\* no element occurs twice in the sequence
Distinct(q) == \A a, b \in DOMAIN q : a # b => q[a] # q[b]

\* C19: every index is enqueued at most once and popped at most once: the
\* queue holds distinct indices, every queued index is selected, and the
\* selected indices are exactly the queued ones and the ones popped so far.
C19_QueueDiscipline ==
    pc \in {"while", "for", "save"} =>
        /\ Distinct(to_explore)
        /\ Distinct(popped)
        /\ Range(to_explore) \cap Range(popped) = {}
        /\ Range(to_explore) \subseteq selected_indices
        /\ selected_indices = Range(to_explore) \cup Range(popped)

\* two indices are queued behind one that has been popped, while a further
\* candidate is already selected and is being skipped
C19_Witness ==
    /\ pc = "for" /\ Len(to_explore) = 2 /\ Len(popped) = 2
    /\ cand_i \in selected_indices

\* ------------------------------------------------ claims on SpecPipeline
\* the unordered pairs of distinct positions of n spectra
PairsOf(n) == {p \in (1..n) \X (1..n) : p[1] < p[2]}

\* the positions an edge joins
EdgePairs == {<<edge_trace[k].i, edge_trace[k].j>> : k \in DOMAIN edge_trace}

\* C12: on n parsed spectra the pipeline writes exactly n nodes, one per
\* entry in input order, and at most n(n-1)/2 edges; every pair of positions
\* i < j is scored exactly once and no spectrum is scored against itself.
C12_NodesAndPairs ==
    /\ \A k \in DOMAIN scored : scored[k][1] < scored[k][2]
    /\ Distinct(scored)
    /\ Len(edges) <= Len(scored)
    /\ pipe_pc = "done" =>
          /\ Range(scored) = PairsOf(Len(entries))
          /\ Len(xgmml.nodes) = Len(entries)
          /\ \A k \in DOMAIN entries :
                xgmml.nodes[k].spectral_entropy =
                    calculate_spectral_entropy(DictOf(entries[k].peaks, 1, <<>>))
          /\ 2 * Len(xgmml.edges) <= Len(entries) * (Len(entries) - 1)

\* four spectra, all six pairs scored, one edge: two nodes are isolated
C12_Witness ==
    /\ pipe_pc = "done" /\ Len(entries) = 4 /\ Len(scored) = 6
    /\ Len(xgmml.nodes) = 4 /\ Len(xgmml.edges) = 1
    /\ EdgePairs = {<<1, 2>>}

\* cos_sim >= SIM_THRESHOLD, for cos_sim = s.num / sqrt(s.densq)
AtLeastSimThreshold(s) ==
    SIM_THRESHOLD_DEN * SIM_THRESHOLD_DEN * s.num * s.num
        >= SIM_THRESHOLD_NUM * SIM_THRESHOLD_NUM * s.densq

\* cos_sim = SIM_THRESHOLD
EqualsSimThreshold(s) ==
    SIM_THRESHOLD_DEN * SIM_THRESHOLD_DEN * s.num * s.num
        = SIM_THRESHOLD_NUM * SIM_THRESHOLD_NUM * s.densq

PairScore(i, j) == cosine_similarity(processed_data[i].peaks, processed_data[j].peaks)

\* C13: a scored pair of positions has an edge if and only if its cosine
\* similarity is at least SIM_THRESHOLD (a pair exactly at the threshold has
\* one), the file holds exactly these edges, and every recorded similarity
\* is at least the threshold.
C13_EdgeIffThreshold ==
    /\ EdgePairs \subseteq Range(scored)
    /\ Len(edges) = Len(edge_trace)
    /\ \A k \in DOMAIN scored :
          (scored[k] \in EdgePairs) <=> AtLeastSimThreshold(PairScore(scored[k][1], scored[k][2]))
    /\ \A k \in DOMAIN edges :
          SIM_THRESHOLD_DEN * edges[k].similarity >= SIM_THRESHOLD_NUM * FOUR_DECIMALS
    /\ pipe_pc = "done" =>
          /\ Len(xgmml.edges) = Len(edges)
          /\ \A k \in DOMAIN edges :
                /\ xgmml.edges[k].cosine_similarity = edges[k].similarity
                /\ xgmml.edges[k].source = processed_data[edge_trace[k].i].id
                /\ xgmml.edges[k].target = processed_data[edge_trace[k].j].id

\* the file holds an edge of a pair scoring exactly 0.9, and another pair
\* scored below the threshold has none
C13_Witness ==
    /\ pipe_pc = "done"
    /\ \E k \in DOMAIN edge_trace :
          /\ EqualsSimThreshold(PairScore(edge_trace[k].i, edge_trace[k].j))
          /\ xgmml.edges[k].cosine_similarity * SIM_THRESHOLD_DEN
                = SIM_THRESHOLD_NUM * FOUR_DECIMALS
    /\ \E k \in DOMAIN scored : scored[k] \notin EdgePairs

BelowEntropyRatioLimit(r) == ~FracLeq(ENTROPY_RATIO_LIMIT, FOUR_DECIMALS, r.num, r.den)

\* C15: every edge written is classified dashed (not solid) if the entropy
\* ratio of its endpoints is below ENTROPY_RATIO_LIMIT, and solid otherwise.
C15_DashedIffBelowLimit ==
    pipe_pc = "done" =>
        \A k \in DOMAIN xgmml.edges :
            (xgmml.edges[k].line_style # "solid") <=> BelowEntropyRatioLimit(edge_trace[k].ratio)

\* pepmass rounded to 2 decimals and retention time rounded to an integer
RoundedKey(entry) ==
    [pepmass |-> RoundHalfEven(IF entry.PEPMASS = None THEN 0 ELSE entry.PEPMASS, 10),
     rt      |-> RoundHalfEven(IF entry.RTINSECONDS = None THEN 0 ELSE entry.RTINSECONDS, 10)]

\* no two entries share the rounded (pepmass, retention time)
RoundedKeysDistinct ==
    \A k, l \in DOMAIN entries : k # l => RoundedKey(entries[k]) # RoundedKey(entries[l])

Retained == {keep_idx[k] : k \in DOMAIN keep_idx}

\* C17: the returned peaks are the input peaks at the retained positions in
\* their original order; no two retained peaks are within the tolerance of
\* each other; every dropped peak is within the tolerance of a retained peak
\* of greater-or-equal intensity, and a peak of the highest intensity is
\* retained; the input spectrum is never changed and the metadata is copied.
C17_MergeKeepsHighest ==
    /\ [][spectrum' = spectrum]_vars
    /\ []((merge_pc = "done" /\ ~spectrum.none) =>
            LET p == spectrum.peaks
            IN  /\ ~merged.none
                /\ Retained \subseteq DOMAIN p
                /\ \A k \in 1..(Len(keep_idx) - 1) : keep_idx[k] < keep_idx[k + 1]
                /\ Len(merged.peaks) = Len(keep_idx)
                /\ \A k \in DOMAIN keep_idx : merged.peaks[k] = p[keep_idx[k]]
                /\ \A a, b \in Retained :
                      a # b => Abs(Mz(p[a]) - Mz(p[b])) > MERGE_TOLERANCE
                /\ \A d \in DOMAIN p \ Retained :
                      \E r \in Retained :
                          /\ Abs(Mz(p[d]) - Mz(p[r])) <= MERGE_TOLERANCE
                          /\ Intensity(p[r]) >= Intensity(p[d])
                /\ p # <<>> =>
                      \E r \in Retained : \A a \in DOMAIN p : Intensity(p[r]) >= Intensity(p[a])
                /\ merged.metadata = spectrum.metadata)

\* three peaks one tolerance apart with the weakest in the middle: the outer
\* two are retained, the middle one is dropped
C17_Witness ==
    /\ merge_pc = "done" /\ ~spectrum.none /\ Len(spectrum.peaks) = 3
    /\ Mz(spectrum.peaks[2]) - Mz(spectrum.peaks[1]) = MERGE_TOLERANCE
    /\ Mz(spectrum.peaks[3]) - Mz(spectrum.peaks[2]) = MERGE_TOLERANCE
    /\ keep_idx = <<1, 3>>
    /\ merged.peaks = <<spectrum.peaks[1], spectrum.peaks[3]>>

\* ------------------------------------------------ claims on SpecTIC
\* the sum of the intensities of the peak lines among lines from..to
RECURSIVE PeakSum(_, _, _)
PeakSum(lines, from, to) ==
    IF from > to THEN 0
    ELSE (IF lines[from].role = "peak" THEN lines[from].second ELSE 0)
             + PeakSum(lines, from + 1, to)

\* the END IONS line closing the block that begins at line b
BlockEnd(lines, b) ==
    CHOOSE e \in b..Len(lines) :
        /\ lines[e].role = "end"
        /\ \A k \in b..(e - 1) : lines[k].role # "end"

\* the blocks of lines from line k on whose peak lines sum to at least
\* min_total_intensity, unmodified and in input order
RECURSIVE BlocksAtLeast(_, _)
BlocksAtLeast(lines, k) ==
    IF k > Len(lines) THEN <<>>
    ELSE IF lines[k].role # "begin" THEN BlocksAtLeast(lines, k + 1)
    ELSE LET e == BlockEnd(lines, k)
         IN  (IF PeakSum(lines, k, e) >= MIN_TOTAL_INTENSITY
              THEN SubSeq(lines, k, e) ELSE <<>>)
                 \o BlocksAtLeast(lines, e + 1)

\* C18: the output holds, unmodified and in input order, exactly the blocks
\* whose peak lines' intensities sum to at least min_total_intensity; header
\* lines do not count and the total does not carry over between blocks.
C18_WritesBlocksByPeakSum ==
    tic_pc = "done" => outfile = BlocksAtLeast(infile, 1)

\* ------------------------------------------------ claims on SpecMain
\* C16: a run in which step 3 finds no seed never writes
\* 06_skeleton_similarity_network.xgmml and never prints the completion
\* message, whatever files the working directory holds when the run starts.
C16_NoSeedRunWritesNoNetwork ==
    seed_found = "none" => (FinalXgmml \notin written /\ ~success_printed)
====
